---- MODULE Spec2Model ----
(***************************************************************************)
(* A model of crates/next-api/src/app.rs: the per-endpoint build of the    *)
(* app router (AppEndpoint::output), its materialisation                   *)
(* (Endpoint::write_to_disk), the segment-config merge of                  *)
(* AppEndpoint::app_route_entry, the change handles and root_modules, the  *)
(* module contexts with their named transitions, the shared client chunk   *)
(* group as a memoized task, and AppProject::routes.                       *)
(*                                                                         *)
(* An output asset is identified by its path.  A path is a record          *)
(* [root, dir, name, ext]: the file system root it lies under ("node" for  *)
(* the node root, "client" for the client-relative root, "other" for      *)
(* anything else), the directory segments below that root, the file name   *)
(* and the extension.  Option<T> is a sequence of length 0 (None) or 1.    *)
(***************************************************************************)
EXTENDS Naturals, Sequences, FiniteSets, TLC

VARIABLES
    input,          \* per endpoint: its type, entry, segment config and client references
    client_shared,         \* the chunk group of the project's client runtime entries
    pc,             \* per endpoint: where its write_to_disk() call stands
    out,            \* per endpoint: the value of output() the call read
    output_assets,         \* per endpoint: the output_assets() the call emits
    emitted,        \* per endpoint: how many of them have been emitted
    written,        \* per endpoint: the WrittenEndpoint the call returned, if any
    err,            \* per endpoint: the error the call returned, if any
    disk,           \* the paths emitted so far
    calls,          \* per endpoint: write_to_disk() calls started
    changes,        \* input changes so far
    first_written,           \* per endpoint: the first WrittenEndpoint since its last input change
    fresh,          \* per endpoint: the paths the running call put on disk first
    root_layouts,   \* app_route_entry: the root layouts, outermost first
    step,           \* app_route_entry: layouts applied so far
    config,         \* app_route_entry: the merged segment config
    mpc,            \* app_route_entry: where the merge stands
    seen,           \* per endpoint: the assets its change handles observed last
    fired,          \* per endpoint: how often each of its change handles has fired
    modules,        \* per endpoint: the value of root_modules(), if computed
    shared_cache,   \* the memoized get_app_client_shared_chunk_group tasks
    shared_runs,    \* how often the body of that task ran in this generation
    context,        \* the module context a module is processed in
    trail,          \* the names of the transitions followed to reach it
    app_entrypoints,       \* routes(): the discovered entrypoints, pathname by pathname
    converted,      \* routes(): per entrypoint, the Route of its conversion once completed
    routes          \* routes(): the collected result, if completed

vars == <<input, client_shared, pc, out, output_assets, emitted, written, err, disk, calls, changes,
          first_written, fresh, root_layouts, step, config, mpc,
          seen, fired, modules, shared_cache, shared_runs, context, trail,
          app_entrypoints, converted, routes>>
endpoint_vars == <<input, client_shared, pc, out, output_assets, emitted, written, err, disk, calls,
                   changes, first_written, fresh>>
merge_vars == <<root_layouts, step, config, mpc>>
context_vars == <<context, trail>>
routes_vars == <<app_entrypoints, converted, routes>>
task_vars == <<seen, fired, modules, shared_cache, shared_runs, context_vars, routes_vars>>

\* ------------------------------------------------------------------ bounds
MaxRefs == 2       \* client references found from one entry
MaxWrites == 2     \* write_to_disk() calls per endpoint
MaxChanges == 1    \* input changes per behaviour
MaxLayouts == 2    \* root layouts above one route

\* ----------------------------------------------------------------- helpers
None == <<>>
Some(x) == <<x>>
IsSome(o) == Len(o) = 1
Unwrap(o) == o[1]

Range(s) == {s[k] : k \in 1..Len(s)}

RECURSIVE IndexSetExtend(_, _)
IndexSetExtend(set, items) ==
    IF items = <<>> THEN set
    ELSE IndexSetExtend(IF Head(items) \in Range(set) THEN set ELSE Append(set, Head(items)),
                        Tail(items))

RECURSIVE Flatten(_)
Flatten(ss) == IF ss = <<>> THEN <<>> ELSE Head(ss) \o Flatten(Tail(ss))

\* ------------------------------------------------------------------- paths
Path(root, dir, name, ext) == [root |-> root, dir |-> dir, name |-> name, ext |-> ext]

node_root == [root |-> "node", dir |-> <<>>]
server_path == [root |-> "node", dir |-> <<"server">>]
client_relative_path == [root |-> "client", dir |-> <<>>]

IsPrefix(p, d) == Len(p) <= Len(d) /\ SubSeq(d, 1, Len(p)) = p

\* FileSystemPath::get_path_to: the path relative to base, None when the path does
\* not lie under base.
GetPathTo(base, path) ==
    IF path.root = base.root /\ IsPrefix(base.dir, path.dir)
    THEN Some([dir |-> SubSeq(path.dir, Len(base.dir) + 1, Len(path.dir)),
               name |-> path.name, ext |-> path.ext])
    ELSE None

\* paths.rs get_paths_from_root: the root-relative paths of the assets that lie
\* under the root and have the extension, in order.
GetPathsFromRoot(root, assets, ext) ==
    LET kept == SelectSeq(assets, LAMBDA a : IsSome(GetPathTo(root, a)) /\ a.ext = ext)
    IN  [k \in 1..Len(kept) |-> Unwrap(GetPathTo(root, kept[k]))]

GetJsPathsFromRoot(root, assets) == GetPathsFromRoot(root, assets, "js")

\* The root-relative paths of all the assets under the root (paths.rs
\* all_server_paths / all_paths_in_root).
AllPathsInRoot(assets, root) ==
    {Unwrap(GetPathTo(root, a)) : a \in {b \in Range(assets) : IsSome(GetPathTo(root, b))}}

ManifestPath(original_name, file) ==
    Path("node", <<"server", "app" \o original_name>>, file, "json")

\* ------------------------------------------------------------------ inputs
Endpoints == {"A", "B"}
PageOf(e) == IF e = "A" THEN "/a" ELSE "/b"

Types == {"Html", "Rsc", "Route", "Metadata"}
EntryStatus == {"ok", "unresolved", "not_evaluatable", "unchunkable"}

\* NextSegmentConfig, the two fields app.rs reads.
SegmentConfig(runtime, region) == [runtime |-> runtime, preferred_region |-> region]
Runtimes == {None, Some("NodeJs"), Some("Edge")}
Regions == {None, Some(<<"us">>)}
EntryConfigs ==
    {SegmentConfig(None, None), SegmentConfig(Some("NodeJs"), None),
     SegmentConfig(Some("Edge"), None), SegmentConfig(Some("Edge"), Some(<<"us">>))}

\* Client chunks.
main_js == Path("client", <<"chunks">>, "main", "js")
main_css == Path("client", <<"chunks">>, "main", "css")
stray_shared_js == Path("other", <<"chunks">>, "shared", "js")
c1_js == Path("client", <<"chunks">>, "c1", "js")
c2_js == Path("client", <<"chunks">>, "c2", "js")
c2_css == Path("client", <<"chunks">>, "c2", "css")
stray_js == Path("other", <<"chunks">>, "stray", "js")
k_css == Path("client", <<"chunks">>, "k", "css")
\* SSR chunks of client references.
s1_js == Path("node", <<"server", "chunks", "ssr">>, "s1", "js")
s1_map == Path("node", <<"server", "chunks", "ssr">>, "s1", "map")

\* The chunk group of the client runtime entries, before any baseline.
SharedGroups == {<<main_js, main_css>>, <<main_js, stray_shared_js>>}

\* A client reference: its kind, the server component (layout segment) it was found
\* under if any, and the chunks its client and SSR modules need.
ScriptRefs ==
    [kind : {"script"}, segment : {"none", "layout"},
     client : {<<c1_js>>, <<main_js, c2_js, c2_css>>, <<stray_js>>},
     ssr : {<<s1_js, s1_map>>}]
CssRefs ==
    [kind : {"css"}, segment : {"none", "layout"}, client : {<<k_css>>}, ssr : {<<>>}]
RefChoices == ScriptRefs \cup CssRefs
RefSeqs(n) == UNION {[1..k -> RefChoices] : k \in 0..n}

EndpointInputs ==
    [ty : Types, entry : EntryStatus, config : EntryConfigs, refs : RefSeqs(MaxRefs)]

\* ------------------------------------------------ collaborators of output()
\* AvailabilityInfo: the assets a chunk group may assume to be loaded already.
AvailabilityRoot == {}

\* AppEntry::original_name and AppEntry::pathname of the entry of a page.
OriginalName(ty, page) == page \o (IF ty \in {"Html", "Rsc"} THEN "/page" ELSE "/route")
Pathname(page) == page

\* get_app_client_shared_chunk_group: the chunk group of the client runtime entries
\* and the availability baseline it leaves for the groups planned after it.
GetAppClientSharedChunkGroup(shared) ==
    [assets |-> shared, availability_info |-> Range(shared)]

\* A chunk group planned against a baseline holds none of the baseline's assets.
ChunkGroup(need, availability) == SelectSeq(need, LAMBDA a : a \notin availability)

\* An IndexMap is the sequence of its entries in insertion order.
Values(map) == [k \in 1..Len(map) |-> map[k].chunks]

\* get_app_client_references_chunks: the client chunks of every client reference, the
\* SSR chunks of every script reference when an SSR chunking context is given, and
\* the client chunks of every layout segment (server component) with references.
GetAppClientReferencesChunks(refs, availability, ssr_chunking_context) ==
    LET idx == 1..Len(refs)
        scripts == SelectSeq([k \in idx |-> k], LAMBDA k : refs[k].kind = "script")
        inLayout == SelectSeq([k \in idx |-> k], LAMBDA k : refs[k].segment = "layout")
    IN  [client_component_client_chunks |->
             [k \in idx |-> [key |-> k, chunks |-> ChunkGroup(refs[k].client, availability)]],
         client_component_ssr_chunks |->
             IF IsSome(ssr_chunking_context)
             THEN [j \in 1..Len(scripts) |->
                      [key |-> scripts[j], chunks |-> refs[scripts[j]].ssr]]
             ELSE <<>>,
         layout_segment_client_chunks |->
             IF inLayout = <<>> THEN <<>>
             ELSE <<[key |-> "layout",
                     chunks |-> IndexSetExtend(<<>>,
                         Flatten([j \in 1..Len(inLayout) |->
                             ChunkGroup(refs[inLayout[j]].client, availability)]))]>>]

ClientRelativePaths(assets) ==
    LET kept == SelectSeq(assets, LAMBDA a : IsSome(GetPathTo(client_relative_path, a)))
    IN  [k \in 1..Len(kept) |-> Unwrap(GetPathTo(client_relative_path, kept[k]))]

\* ClientReferenceManifest::build_output: every client reference mapped to the
\* client-relative paths of its client chunks and to its SSR chunks.
ClientReferenceManifest(refs, chunks) ==
    [k \in 1..Len(refs) |->
        [client_chunks |-> ClientRelativePaths(chunks.client_component_client_chunks[k].chunks),
         ssr_chunks |->
            Flatten([j \in 1..Len(chunks.client_component_ssr_chunks) |->
                IF chunks.client_component_ssr_chunks[j].key = k
                THEN GetPathsFromRoot(node_root, chunks.client_component_ssr_chunks[j].chunks, "js")
                ELSE <<>>])]]

EntryManifestPath(original_name) ==
    Path("node", <<"server">>, "app" \o original_name \o "_client-reference-manifest", "js")

polyfill_output_path == Path("client", <<"chunks">>, "polyfill-nomodule", "js")

\* ChunkingContext::evaluated_chunk_group_assets of the edge chunking context.
EdgeFiles(original_name) ==
    <<Path("node", <<"server", "edge", "chunks">>, "edge" \o original_name, "js"),
      Path("node", <<"server", "edge", "chunks">>, "edge" \o original_name, "map")>>

\* --------------------------------------------------- AppEndpoint::output()
\* Variant: the client half runs for every endpoint type.
ProcessClientAlways(ty) == TRUE

ProcessClient(ty) == ty \in {"Html", "Rsc"}
\* Variant: SSR chunks are planned for both page variants.
ProcessSsrAllPages(ty) == ty \in {"Html", "Rsc"}

ProcessSsr(ty) == ty = "Html"

\* Variant: a config that sets no runtime is built for the edge.
ResolveRuntimeEdgeDefault(segment_config) ==
    IF IsSome(segment_config.runtime) THEN Unwrap(segment_config.runtime) ELSE "Edge"

\* app_entry.config.await?.runtime.unwrap_or_default()
ResolveRuntime(segment_config) ==
    IF IsSome(segment_config.runtime) THEN Unwrap(segment_config.runtime) ELSE "NodeJs"

ClientSharedChunksPaths(shared_assets) ==
    GetPathsFromRoot(client_relative_path, shared_assets, "js")

\* Variant: the client references are planned from scratch, with no baseline.
ClientReferencesAvailabilityRoot(client_shared_chunk_group) == AvailabilityRoot

ClientReferencesAvailability(client_shared_chunk_group) ==
    client_shared_chunk_group.availability_info

SsrChunkingContext(process_ssr, runtime) ==
    IF process_ssr THEN Some(IF runtime = "NodeJs" THEN "server" ELSE "edge") ELSE None

EntryClientChunks(chunks) ==
    IndexSetExtend(<<>>, Flatten(Values(chunks.layout_segment_client_chunks)))

EntrySsrChunks(chunks) ==
    IndexSetExtend(<<>>, Flatten(Values(chunks.client_component_ssr_chunks)))

ClientAssets(shared_assets, chunks, polyfill) ==
    shared_assets \o Flatten(Values(chunks.client_component_client_chunks))
        \o EntryClientChunks(chunks) \o <<polyfill>>

EntryClientChunksPaths(entry_client_chunks, client_shared_chunks_paths) ==
    [k \in 1..Len(entry_client_chunks) |->
        Unwrap(GetPathTo(client_relative_path, entry_client_chunks[k]))]
    \o client_shared_chunks_paths

\* Variant: the SSR chunks of the client references are not added to the server assets.
ClientServerAssetsNoSsr(chunks, original_name) ==
    <<ManifestPath(original_name, "app-build-manifest"),
      ManifestPath(original_name, "build-manifest"),
      EntryManifestPath(original_name)>>

ClientServerAssets(chunks, original_name) ==
    EntrySsrChunks(chunks)
        \o <<ManifestPath(original_name, "app-build-manifest"),
             ManifestPath(original_name, "build-manifest"),
             EntryManifestPath(original_name)>>

\* Variant: only the client reference manifest is handed to the edge function.
MiddlewareAssetsManifestOnly(runtime, entry_manifest, chunks) ==
    IF runtime = "Edge" THEN <<entry_manifest>> ELSE <<>>

MiddlewareAssets(runtime, entry_manifest, chunks) ==
    IF runtime = "Edge"
    THEN <<entry_manifest>> \o Flatten(Values(chunks.client_component_ssr_chunks))
    ELSE <<>>

GlobalManifestScripts ==
    <<[dir |-> <<"server">>, name |-> "server-reference-manifest", ext |-> "js"],
      [dir |-> <<"server">>, name |-> "middleware-build-manifest", ext |-> "js"],
      [dir |-> <<"server">>, name |-> "middleware-react-loadable-manifest", ext |-> "js"],
      [dir |-> <<"server">>, name |-> "next-font-manifest", ext |-> "js"],
      [dir |-> <<"server">>, name |-> "interception-route-rewrite-manifest", ext |-> "js"]>>

\* Variant: the paths of the evaluated chunk group come before the inlined ones.
FilePathsFromRootFilesFirst(middleware_assets, files_value) ==
    GlobalManifestScripts
        \o GetJsPathsFromRoot(node_root, files_value)
        \o GetJsPathsFromRoot(node_root, middleware_assets)

FilePathsFromRoot(middleware_assets, files_value) ==
    GlobalManifestScripts
        \o GetJsPathsFromRoot(node_root, middleware_assets)
        \o GetJsPathsFromRoot(node_root, files_value)

\* Variant: the entry is pushed before the runtime entries.
EdgeEvaluatableAssetsEntryFirst(process_client) ==
    <<"rsc_entry", "edge_rsc_runtime_entries">>
        \o (IF process_client THEN <<"server_actions_loader">> ELSE <<>>)

EdgeEvaluatableAssets(process_client) ==
    <<"edge_rsc_runtime_entries", "rsc_entry">>
        \o (IF process_client THEN <<"server_actions_loader">> ELSE <<>>)

NodeEvaluatableAssets(process_client) ==
    <<"rsc_runtime_entries">>
        \o (IF process_client THEN <<"server_actions_loader">> ELSE <<>>)

RscChunk(original_name) == Path("node", <<"server">>, "app" \o original_name, "js")

\* Variant: the manifest is written without its entry.
CreateAppPathsManifestNoEntry(original_name, filename) ==
    [path |-> ManifestPath(original_name, "app-paths-manifest"), pages |-> <<>>]

CreateAppPathsManifest(original_name, filename) ==
    [path |-> ManifestPath(original_name, "app-paths-manifest"),
     pages |-> <<[key |-> original_name, value |-> filename]>>]

\* The client half of output() (the `if process_client` block): the shared client
\* chunk group, the chunks of the client references, and the client manifests.
NoClientPart ==
    [ok |-> TRUE, client_assets |-> <<>>, server_assets |-> <<>>,
     middleware_assets |-> <<>>, shared_assets |-> <<>>, availability |-> AvailabilityRoot,
     ssr_chunking_context |-> None,
     chunks |-> [client_component_client_chunks |-> <<>>,
                 client_component_ssr_chunks |-> <<>>,
                 layout_segment_client_chunks |-> <<>>],
     entry_client_chunks |-> <<>>,
     app_build_manifest |-> None, build_manifest |-> None,
     client_reference_manifest |-> None, client_dynamic_imports |-> None]

ClientPart(i, original_name, shared, runtime) ==
    LET client_shared_chunk_group == GetAppClientSharedChunkGroup(shared)
        client_shared_chunks_paths == ClientSharedChunksPaths(client_shared_chunk_group.assets)
        availability == ClientReferencesAvailability(client_shared_chunk_group)
        ssr_chunking_context == SsrChunkingContext(ProcessSsr(i.ty), runtime)
        chunks == GetAppClientReferencesChunks(i.refs, availability, ssr_chunking_context)
        entry_client_chunks == EntryClientChunks(chunks)
        inside == \A a \in Range(entry_client_chunks) :
                      IsSome(GetPathTo(client_relative_path, a))
        entry_manifest == EntryManifestPath(original_name)
        scripts == SelectSeq([k \in 1..Len(i.refs) |-> k], LAMBDA k : i.refs[k].kind = "script")
    IN  [ok |-> inside /\ IsSome(GetPathTo(client_relative_path, polyfill_output_path)),
         client_assets |->
             ClientAssets(client_shared_chunk_group.assets, chunks, polyfill_output_path),
         server_assets |-> ClientServerAssets(chunks, original_name),
         middleware_assets |-> MiddlewareAssets(runtime, entry_manifest, chunks),
         shared_assets |-> client_shared_chunk_group.assets,
         availability |-> availability,
         ssr_chunking_context |-> ssr_chunking_context,
         chunks |-> chunks,
         entry_client_chunks |-> entry_client_chunks,
         app_build_manifest |->
             IF inside
             THEN Some([key |-> original_name,
                        files |-> EntryClientChunksPaths(entry_client_chunks,
                                                         client_shared_chunks_paths)])
             ELSE None,
         build_manifest |->
             Some([root_main_files |-> client_shared_chunks_paths,
                   polyfill_files |->
                       <<Unwrap(GetPathTo(client_relative_path, polyfill_output_path))>>]),
         client_reference_manifest |-> Some(ClientReferenceManifest(i.refs, chunks)),
         client_dynamic_imports |-> Some(scripts)]

FailedOutput(msg) ==
    [ok |-> FALSE, err |-> msg, variant |-> "none", rsc_chunk |-> None, files |-> <<>>,
     server_assets |-> <<>>, client_assets |-> <<>>, client |-> NoClientPart,
     evaluatable_assets |-> <<>>, entry_module |-> None, availability_info |-> AvailabilityRoot,
     middleware_manifest |-> None,
     app_paths_manifest |-> None, loadable_sources |-> <<>>]

\* The server-actions manifest pushed when the client half produced server
\* reference modules.
ServerActionsAssets(process_client, original_name) ==
    IF process_client THEN <<ManifestPath(original_name, "server-reference-manifest")>> ELSE <<>>

\* The modules whose dynamic imports feed the react-loadable manifest: the RSC entry
\* and the SSR modules collected by the client half.
\* Variant: only the entry is searched for dynamic imports.
DynamicImportSourcesEntryOnly(c) == <<0>>

DynamicImportSources(c) ==
    <<0>> \o (IF IsSome(c.client_dynamic_imports) THEN Unwrap(c.client_dynamic_imports) ELSE <<>>)

EdgeOutput(i, original_name, pathname, c) ==
    LET process_client == ProcessClient(i.ty)
        files == EdgeFiles(original_name)
        file_paths_from_root == FilePathsFromRoot(c.middleware_assets, files)
        edge_function_definition ==
            [files |-> file_paths_from_root,
             name |-> pathname,
             page |-> original_name,
             regions |-> i.config.preferred_region,
             matchers |-> <<[regexp |-> Some("^" \o pathname \o "$"),
                             original_source |-> pathname]>>]
        middleware_manifest_v2 ==
            [path |-> ManifestPath(original_name, "middleware-manifest"),
             sorted_middleware |-> <<original_name>>,
             functions |-> <<[key |-> original_name, value |-> edge_function_definition]>>]
        app_paths_manifest ==
            CreateAppPathsManifest(original_name, "app-edge-has-no-entrypoint")
    IN  [ok |-> TRUE, err |-> "", variant |-> "Edge", rsc_chunk |-> None, files |-> files,
         server_assets |->
             c.server_assets
                 \o <<ManifestPath(original_name, "next-font-manifest")>>
                 \o ServerActionsAssets(process_client, original_name)
                 \o files
                 \o <<middleware_manifest_v2.path, app_paths_manifest.path,
                      ManifestPath(original_name, "react-loadable-manifest")>>,
         client_assets |-> c.client_assets,
         client |-> c,
         evaluatable_assets |-> EdgeEvaluatableAssets(process_client),
         entry_module |-> None,
         availability_info |-> AvailabilityRoot,
         middleware_manifest |-> Some(middleware_manifest_v2),
         app_paths_manifest |-> Some(app_paths_manifest),
         loadable_sources |-> DynamicImportSources(c)]

NodeJsOutput(i, original_name, c) ==
    LET process_client == ProcessClient(i.ty)
        rsc_chunk == RscChunk(original_name)
        filename == GetPathTo(server_path, rsc_chunk)
    IN  IF ~IsSome(filename)
        THEN FailedOutput("RSC chunk path should be within app paths manifest directory")
        ELSE
        [ok |-> TRUE, err |-> "", variant |-> "NodeJs", rsc_chunk |-> Some(rsc_chunk),
         files |-> <<>>,
         server_assets |->
             c.server_assets
                 \o <<ManifestPath(original_name, "next-font-manifest")>>
                 \o ServerActionsAssets(process_client, original_name)
                 \o <<rsc_chunk,
                      CreateAppPathsManifest(original_name, Unwrap(filename)).path,
                      ManifestPath(original_name, "react-loadable-manifest")>>,
         client_assets |-> c.client_assets,
         client |-> c,
         evaluatable_assets |-> NodeEvaluatableAssets(process_client),
         entry_module |-> Some("rsc_entry"),
         availability_info |-> AvailabilityRoot,
         middleware_manifest |-> None,
         app_paths_manifest |-> Some(CreateAppPathsManifest(original_name, Unwrap(filename))),
         loadable_sources |-> DynamicImportSources(c)]

\* AppEndpoint::output(): the entry is resolved, the client half runs for pages, and
\* the build branches on the runtime of the entry's config.
Output(i, page, shared) ==
    LET original_name == OriginalName(i.ty, page)
        runtime == ResolveRuntime(i.config)
        c == IF ProcessClient(i.ty) THEN ClientPart(i, original_name, shared, runtime)
             ELSE NoClientPart
    IN  IF i.entry = "unresolved" THEN FailedOutput("entry could not be resolved")
        ELSE IF ~c.ok THEN FailedOutput("asset path should be inside client root")
        ELSE IF runtime = "Edge"
        THEN IF i.entry = "not_evaluatable"
             THEN FailedOutput("Entry module must be evaluatable")
             ELSE IF i.entry = "unchunkable"
             THEN FailedOutput("entry could not be chunked")
             ELSE EdgeOutput(i, original_name, Pathname(page), c)
        ELSE IF i.entry = "unchunkable"
             THEN FailedOutput("entry could not be chunked")
             ELSE NodeJsOutput(i, original_name, c)

\* AppEndpointOutput::output_assets(): the server assets followed by the client assets.
OutputAssets(output) == output.server_assets \o output.client_assets

\* ------------------------------------------------- Endpoint::write_to_disk()
NotComputed == FailedOutput("not computed")

\* Variant: the outputs of all the endpoints are joined, so one failure fails all.
EndpointOutputJoined(e) ==
    IF \E f \in Endpoints : ~Output(input[f], PageOf(f), client_shared).ok
    THEN FailedOutput("an endpoint of the project failed")
    ELSE Output(input[e], PageOf(e), client_shared)

\* self.output() of endpoint e.
EndpointOutput(e) == Output(input[e], PageOf(e), client_shared)

\* Variant: the emission is started but not awaited.
EmitNotAwaited(e) == TRUE

\* emit_all_output_assets(...).await: the call goes on once every asset is emitted.
EmitCompleted(e) == emitted[e] = Len(output_assets[e])

\* Variant: only the paths the call put on disk itself are reported.
WrittenPathsFresh(e, root) ==
    AllPathsInRoot(SelectSeq(output_assets[e], LAMBDA a : a \in fresh[e]), root)

\* Variant: the paths are taken from the server assets alone.
WrittenPathsServerOnly(e, root) == AllPathsInRoot(out[e].server_assets, root)

\* all_server_paths(output_assets, node_root) and
\* all_paths_in_root(output_assets, client_relative_root).
WrittenPaths(e, root) == AllPathsInRoot(output_assets[e], root)

WrittenEndpointOf(e) ==
    [variant |-> out[e].variant,
     server_entry_path |->
         IF out[e].variant = "NodeJs"
         THEN GetPathTo(node_root, Unwrap(out[e].rsc_chunk))
         ELSE None,
     server_paths |-> WrittenPaths(e, node_root),
     client_paths |-> WrittenPaths(e, client_relative_path)]

\* Variant: the error is returned without the context of the endpoint.
ErrorWithoutContext(e, cause) == [context |-> cause, cause |-> cause]

ErrorContext(e, cause) ==
    [context |-> "Failed to write app endpoint " \o PageOf(e), cause |-> cause]

\* The call starts: it awaits output() and takes output_assets(); a failure of
\* output() ends the call with the error.  The body is modelled as run on every
\* call; the memoization of the task can only skip runs.
StartWrite(e) ==
    /\ pc[e] \in {"idle", "done", "failed"}
    /\ calls[e] < MaxWrites
    /\ calls' = [calls EXCEPT ![e] = @ + 1]
    /\ LET output == EndpointOutput(e)
       IN  /\ out' = [out EXCEPT ![e] = output]
           /\ pc' = [pc EXCEPT ![e] = IF output.ok THEN "emit" ELSE "failed"]
           /\ output_assets' = [output_assets EXCEPT ![e] = IF output.ok THEN OutputAssets(output) ELSE <<>>]
           /\ err' = [err EXCEPT ![e] =
                         IF output.ok THEN None ELSE Some(ErrorContext(e, output.err))]
    /\ emitted' = [emitted EXCEPT ![e] = 0]
    /\ written' = [written EXCEPT ![e] = None]
    /\ fresh' = [fresh EXCEPT ![e] = {}]
    /\ UNCHANGED <<input, client_shared, disk, changes, first_written, merge_vars, task_vars>>

\* emit_all_output_assets: one asset reaches the disk.  Emitting is a set insertion,
\* commutative and idempotent, so the output_assets of one call are taken in list order.
Emit(e) ==
    /\ pc[e] = "emit"
    /\ emitted[e] < Len(output_assets[e])
    /\ LET a == output_assets[e][emitted[e] + 1]
       IN  /\ disk' = disk \cup {a}
           /\ fresh' = [fresh EXCEPT ![e] = IF a \in disk THEN @ ELSE @ \cup {a}]
    /\ emitted' = [emitted EXCEPT ![e] = @ + 1]
    /\ UNCHANGED <<input, client_shared, pc, out, output_assets, written, err, calls, changes, first_written,
                   merge_vars, task_vars>>

\* The call returns its WrittenEndpoint, or the error of the entry path.
Return(e) ==
    /\ pc[e] = "emit"
    /\ EmitCompleted(e)
    /\ LET w == WrittenEndpointOf(e)
           inside == w.variant = "NodeJs" => IsSome(w.server_entry_path)
       IN  /\ pc' = [pc EXCEPT ![e] = IF inside THEN "done" ELSE "failed"]
           /\ written' = [written EXCEPT ![e] = IF inside THEN Some(w) ELSE None]
           /\ err' = [err EXCEPT ![e] =
                         IF inside THEN None
                         ELSE Some(ErrorContext(e,
                                 "Node.js chunk entry path must be inside the node root"))]
           /\ first_written' = [first_written EXCEPT ![e] = IF inside /\ ~IsSome(@) THEN Some(w) ELSE @]
    /\ UNCHANGED <<input, client_shared, out, output_assets, emitted, disk, calls, changes, fresh,
                   merge_vars, task_vars>>

\* The inputs the write_to_disk() specification draws from.
layout_script_ref ==
    [kind |-> "script", segment |-> "layout", client |-> <<c1_js>>, ssr |-> <<s1_js, s1_map>>]
WriteInputs ==
    {i \in [ty : {"Html", "Rsc", "Route"}, entry : {"ok", "unresolved"},
            config : {SegmentConfig(None, None), SegmentConfig(Some("Edge"), None)},
            refs : {<<>>, <<layout_script_ref>>}] :
        (i.ty \in {"Html", "Rsc"}) <=> (i.refs # <<>>)}

\* The project of the write_to_disk() specification: the Html endpoint of page /a
\* and the route /b.
EndpointTypes(e) == IF e = "A" THEN {"Html"} ELSE {"Route"}

\* An input of endpoint e changes: an edit breaks or repairs an import of its entry.
\* A call in flight is abandoned and starts again against the new inputs.
InputChange(e) ==
    /\ changes < MaxChanges
    /\ changes' = changes + 1
    /\ \E i \in WriteInputs :
          /\ i.ty = input[e].ty
          /\ i.config = input[e].config
          /\ i # input[e]
          /\ input' = [input EXCEPT ![e] = i]
    /\ first_written' = [first_written EXCEPT ![e] = None]
    /\ IF pc[e] = "emit"
       THEN /\ pc' = [pc EXCEPT ![e] = "idle"]
            /\ out' = [out EXCEPT ![e] = NotComputed]
            /\ output_assets' = [output_assets EXCEPT ![e] = <<>>]
            /\ emitted' = [emitted EXCEPT ![e] = 0]
            /\ fresh' = [fresh EXCEPT ![e] = {}]
            /\ calls' = [calls EXCEPT ![e] = @ - 1]
       ELSE UNCHANGED <<pc, out, output_assets, emitted, fresh, calls>>
    /\ UNCHANGED <<client_shared, written, err, disk, merge_vars, task_vars>>

InitEndpointState ==
    /\ pc = [e \in Endpoints |-> "idle"]
    /\ out = [e \in Endpoints |-> NotComputed]
    /\ output_assets = [e \in Endpoints |-> <<>>]
    /\ emitted = [e \in Endpoints |-> 0]
    /\ written = [e \in Endpoints |-> None]
    /\ err = [e \in Endpoints |-> None]
    /\ disk = {}
    /\ calls = [e \in Endpoints |-> 0]
    /\ changes = 0
    /\ first_written = [e \in Endpoints |-> None]
    /\ fresh = [e \in Endpoints |-> {}]

InitNoTasks ==
    /\ seen = [e \in Endpoints |-> [server |-> None, client |-> None]]
    /\ fired = [e \in Endpoints |-> [server |-> 0, client |-> 0]]
    /\ modules = [e \in Endpoints |-> None]
    /\ shared_cache = {}
    /\ shared_runs = 0
    /\ context = None
    /\ trail = <<>>

InitNoRoutes ==
    /\ app_entrypoints = <<>>
    /\ converted = <<>>
    /\ routes = None

InitNoMerge ==
    /\ root_layouts = <<>>
    /\ step = 0
    /\ config = None
    /\ mpc = "off"

Init ==
    /\ input \in {f \in [Endpoints -> WriteInputs] :
                     \A e \in Endpoints : f[e].ty \in EndpointTypes(e)}
    /\ client_shared = <<main_js, main_css>>
    /\ InitEndpointState
    /\ InitNoMerge
    /\ InitNoTasks
    /\ InitNoRoutes

Next == \E e \in Endpoints : StartWrite(e) \/ Emit(e) \/ Return(e) \/ InputChange(e)

Spec == Init /\ [][Next]_vars

\* ------------------------------------------------ output() on its own inputs
DefaultInput ==
    [ty |-> "Route", entry |-> "ok", config |-> SegmentConfig(None, None), refs |-> <<>>]

\* output() of endpoint e is computed.
ComputeOutput(e) ==
    /\ pc[e] = "idle"
    /\ LET output == EndpointOutput(e)
       IN  /\ out' = [out EXCEPT ![e] = output]
           /\ pc' = [pc EXCEPT ![e] = IF output.ok THEN "computed" ELSE "failed"]
    /\ UNCHANGED <<input, client_shared, output_assets, emitted, written, err, disk, calls, changes,
                   first_written, fresh, merge_vars, task_vars>>

InitOutput ==
    /\ \E i \in EndpointInputs :
          input = [e \in Endpoints |-> IF e = "A" THEN i ELSE DefaultInput]
    /\ client_shared \in SharedGroups
    /\ InitEndpointState
    /\ InitNoMerge
    /\ InitNoTasks
    /\ InitNoRoutes

NextOutput == ComputeOutput("A")

SpecOutput == InitOutput /\ [][NextOutput]_vars

\* ------------------------------------------- AppEndpoint::app_route_entry()
LayoutConfigs == [runtime : Runtimes, preferred_region : {None, Some(<<"us">>), Some(<<"eu">>)}]
LayoutChains(n) == UNION {[1..k -> LayoutConfigs] : k \in 0..n}

\* NextSegmentConfig::apply_parent_config: every field still unset takes the
\* parent's value.
ApplyParentConfig(self, parent) ==
    [runtime |-> IF IsSome(self.runtime) THEN self.runtime ELSE parent.runtime,
     preferred_region |->
         IF IsSome(self.preferred_region) THEN self.preferred_region
         ELSE parent.preferred_region]

\* Variant: the layouts are visited outermost first.
LayoutAtForward(layouts, k) == layouts[k]

\* root_layouts.iter().rev(): the k-th layout the loop visits.
LayoutAt(layouts, k) == layouts[Len(layouts) - k + 1]

\* No root layout: no config.  Otherwise the loop starts from the default config.
MergeStart ==
    /\ mpc = "start"
    /\ IF root_layouts = <<>>
       THEN config' = None /\ mpc' = "done"
       ELSE config' = Some(SegmentConfig(None, None)) /\ mpc' = "loop"
    /\ UNCHANGED <<root_layouts, step, endpoint_vars, task_vars>>

\* One iteration: the config of the next layout is applied as a parent config.
MergeStep ==
    /\ mpc = "loop"
    /\ step < Len(root_layouts)
    /\ config' = Some(ApplyParentConfig(Unwrap(config), LayoutAt(root_layouts, step + 1)))
    /\ step' = step + 1
    /\ UNCHANGED <<root_layouts, mpc, endpoint_vars, task_vars>>

\* The loop is over: Some(config) goes to get_app_route_entry.
MergeFinish ==
    /\ mpc = "loop"
    /\ step = Len(root_layouts)
    /\ mpc' = "done"
    /\ UNCHANGED <<root_layouts, step, config, endpoint_vars, task_vars>>

InitMerge ==
    /\ root_layouts \in LayoutChains(MaxLayouts)
    /\ step = 0
    /\ config = None
    /\ mpc = "start"
    /\ input = [e \in Endpoints |-> DefaultInput]
    /\ client_shared = <<main_js, main_css>>
    /\ InitEndpointState
    /\ InitNoTasks
    /\ InitNoRoutes

NextMerge == MergeStart \/ MergeStep \/ MergeFinish

SpecMerge == InitMerge /\ [][NextMerge]_vars

\* ------------------- server_changed() / client_changed() / root_modules()
\* Variant: a handle watches all the output assets of the endpoint.
AllAssetsOf(output) == output.server_assets \o output.client_assets

\* AppEndpointOutput::server_assets() and client_assets().
ServerAssetsOf(output) == output.server_assets
ClientAssetsOf(output) == output.client_assets

\* Project::server_changed / client_changed: the handle resolves again when the
\* assets it is given differ from the ones it observed last.
HandleFires(observed, last) == Some(observed) # last

\* server_changed(): output() is computed and its server assets are watched.  An
\* error of output() is the error of the handle.
ServerChanged(e) ==
    LET output == EndpointOutput(e)
        fires == output.ok /\ HandleFires(ServerAssetsOf(output), seen[e].server)
    IN  /\ fires \/ out[e] # output
        /\ out' = [out EXCEPT ![e] = output]
        /\ seen' = [seen EXCEPT ![e].server =
                       IF fires THEN Some(ServerAssetsOf(output)) ELSE @]
        /\ fired' = [fired EXCEPT ![e].server = IF fires THEN @ + 1 ELSE @]
        /\ UNCHANGED <<input, client_shared, pc, output_assets, emitted, written, err, disk,
                       calls, changes, first_written, fresh, merge_vars,
                       modules, shared_cache, shared_runs, context_vars, routes_vars>>

\* client_changed(): the same for the client assets.
ClientChanged(e) ==
    LET output == EndpointOutput(e)
        fires == output.ok /\ HandleFires(ClientAssetsOf(output), seen[e].client)
    IN  /\ fires \/ out[e] # output
        /\ out' = [out EXCEPT ![e] = output]
        /\ seen' = [seen EXCEPT ![e].client =
                       IF fires THEN Some(ClientAssetsOf(output)) ELSE @]
        /\ fired' = [fired EXCEPT ![e].client = IF fires THEN @ + 1 ELSE @]
        /\ UNCHANGED <<input, client_shared, pc, output_assets, emitted, written, err, disk,
                       calls, changes, first_written, fresh, merge_vars,
                       modules, shared_cache, shared_runs, context_vars, routes_vars>>

\* AppEntry::rsc_entry of the entry of endpoint e.
RscEntry(e) == [rsc_entry |-> OriginalName(input[e].ty, PageOf(e))]

\* Variant: root_modules() goes through output() to reach the entry.
RootModulesViaOutput(e) ==
    /\ EndpointOutput(e).ok
    /\ modules[e] # Some(<<RscEntry(e)>>)
    /\ modules' = [modules EXCEPT ![e] = Some(<<RscEntry(e)>>)]
    /\ out' = [out EXCEPT ![e] = EndpointOutput(e)]
    /\ UNCHANGED <<input, client_shared, pc, output_assets, emitted, written, err, disk,
                   calls, changes, first_written, fresh, merge_vars,
                   seen, fired, shared_cache, shared_runs, context_vars, routes_vars>>

\* root_modules(): the entry is resolved and its RSC entry is the one root module.
\* An entry that does not resolve is the error of the call.
RootModules(e) ==
    /\ input[e].entry # "unresolved"
    /\ modules[e] # Some(<<RscEntry(e)>>)
    /\ modules' = [modules EXCEPT ![e] = Some(<<RscEntry(e)>>)]
    /\ UNCHANGED <<input, client_shared, pc, out, output_assets, emitted, written, err, disk,
                   calls, changes, first_written, fresh, merge_vars,
                   seen, fired, shared_cache, shared_runs, context_vars, routes_vars>>

\* The inputs the specification of the handles draws from.
layout_script_ref_2 ==
    [kind |-> "script", segment |-> "layout", client |-> <<main_js, c2_js, c2_css>>,
     ssr |-> <<s1_js, s1_map>>]
WatchInputs ==
    {i \in [ty : {"Html", "Route"}, entry : {"ok", "unresolved", "not_evaluatable"},
            config : {SegmentConfig(None, None), SegmentConfig(Some("Edge"), None)},
            refs : {<<>>, <<layout_script_ref>>, <<layout_script_ref_2>>}] :
        i.ty = "Route" => i.refs = <<>>}

\* An input of endpoint e changes: the memoized output() and root_modules() of the
\* endpoint are invalidated, the last observations of the handles stay.
WatchedInputChange(e) ==
    /\ changes < MaxChanges
    /\ changes' = changes + 1
    /\ \E i \in WatchInputs :
          /\ i.ty = input[e].ty
          /\ i # input[e]
          /\ input' = [input EXCEPT ![e] = i]
    /\ out' = [out EXCEPT ![e] = NotComputed]
    /\ modules' = [modules EXCEPT ![e] = None]
    /\ UNCHANGED <<client_shared, pc, output_assets, emitted, written, err, disk, calls,
                   first_written, fresh, merge_vars, seen, fired, shared_cache, shared_runs, context_vars, routes_vars>>

InitHandles ==
    /\ \E i \in WatchInputs :
          input = [e \in Endpoints |-> IF e = "A" THEN i ELSE DefaultInput]
    /\ client_shared = <<main_js, main_css>>
    /\ InitEndpointState
    /\ InitNoMerge
    /\ InitNoTasks
    /\ InitNoRoutes

NextHandles ==
    \/ ServerChanged("A")
    \/ ClientChanged("A")
    \/ RootModules("A")
    \/ WatchedInputChange("A")

SpecHandles == InitHandles /\ [][NextHandles]_vars

\* ------------------------------------------ module contexts and transitions
MaxTrail == 3      \* transitions followed from one module context

ECMASCRIPT_CLIENT_TRANSITION_NAME == "next-ecmascript-client-reference"

\* named_transitions: the pairs collected into a map; a later pair with the same
\* name replaces an earlier one.
Collect(pairs) ==
    [name \in {pairs[j][1] : j \in 1..Len(pairs)} |->
        pairs[CHOOSE j \in 1..Len(pairs) :
                 /\ pairs[j][1] = name
                 /\ \A k \in 1..Len(pairs) : pairs[k][1] = name => k <= j][2]]

NoTransitions == Collect(<<>>)

\* ModuleAssetContext::new(transitions, compile_time_info, module options, resolve
\* options, layer).
ModuleAssetContext(transitions, compile_time_info, module_options, resolve_options, layer) ==
    [transitions |-> transitions, compile_time_info |-> compile_time_info,
     module_options |-> module_options, resolve_options |-> resolve_options,
     layer |-> layer]

\* get_server_module_options_context(.., ty, .., runtime),
\* get_server_resolve_options_context(.., ty, ..) and
\* get_edge_resolve_options_context(.., ty, ..).
ServerModuleOptions(ty, runtime) == [ty |-> ty, runtime |-> runtime]
ServerResolveOptions(ty) == [ty |-> ty, conditions |-> "server"]
EdgeResolveOptions(ty) == [ty |-> ty, conditions |-> "edge"]

client_module_context ==
    ModuleAssetContext(NoTransitions, "client",
                       [ty |-> "client", runtime |-> "browser"],
                       [ty |-> "client", conditions |-> "client"], "app-client")

ContextTransition(compile_time_info, module_options, resolve_options, layer) ==
    [kind |-> "context", compile_time_info |-> compile_time_info,
     module_options |-> module_options, resolve_options |-> resolve_options,
     layer |-> layer]
FullContextTransition(module_context) == [kind |-> "full", module_context |-> module_context]
NextEcmascriptClientReferenceTransition(client, ssr) ==
    [kind |-> "client_reference", client_transition |-> client, ssr_transition |-> ssr]
NextDynamicTransition(client) == [kind |-> "dynamic", client_transition |-> client]

client_transition == FullContextTransition(client_module_context)

ssr_transition ==
    ContextTransition("server", ServerModuleOptions("ssr", "NodeJs"),
                      ServerResolveOptions("ssr"), "app-ssr")
shared_transition ==
    ContextTransition("server", ServerModuleOptions("ssr", "NodeJs"),
                      ServerResolveOptions("ssr"), "app-shared")
edge_ssr_transition ==
    ContextTransition("edge", ServerModuleOptions("ssr", "Edge"),
                      EdgeResolveOptions("ssr"), "app-edge-ssr")
edge_shared_transition ==
    ContextTransition("edge", ServerModuleOptions("ssr", "Edge"),
                      EdgeResolveOptions("ssr"), "app-edge-shared")

client_reference_transition ==
    NextEcmascriptClientReferenceTransition(client_transition, ssr_transition)
edge_client_reference_transition ==
    NextEcmascriptClientReferenceTransition(client_transition, edge_ssr_transition)

rsc_module_context ==
    ModuleAssetContext(
        Collect(<<<<ECMASCRIPT_CLIENT_TRANSITION_NAME, client_reference_transition>>,
                  <<"next-dynamic", NextDynamicTransition(client_transition)>>,
                  <<"next-ssr", ssr_transition>>,
                  <<"next-shared", shared_transition>>>>),
        "server", ServerModuleOptions("rsc", "NodeJs"), ServerResolveOptions("rsc"),
        "app-rsc")

edge_rsc_module_context ==
    ModuleAssetContext(
        Collect(<<<<ECMASCRIPT_CLIENT_TRANSITION_NAME, edge_client_reference_transition>>,
                  <<"next-dynamic", NextDynamicTransition(client_transition)>>,
                  <<"next-ssr", edge_ssr_transition>>,
                  <<"next-shared", edge_shared_transition>>>>),
        "edge", ServerModuleOptions("rsc", "Edge"), EdgeResolveOptions("rsc"),
        "app-edge-rsc")

route_module_context ==
    ModuleAssetContext(
        Collect(<<<<ECMASCRIPT_CLIENT_TRANSITION_NAME, client_reference_transition>>,
                  <<"next-dynamic", NextDynamicTransition(client_transition)>>,
                  <<"next-ssr", ssr_transition>>,
                  <<"next-shared", shared_transition>>>>),
        "server", ServerModuleOptions("route", "NodeJs"), ServerResolveOptions("route"),
        "app-route")

\* Variant: the edge route context is built without the SSR crossing.
edge_route_module_context_no_ssr ==
    ModuleAssetContext(
        Collect(<<<<ECMASCRIPT_CLIENT_TRANSITION_NAME, edge_client_reference_transition>>,
                  <<"next-dynamic", NextDynamicTransition(client_transition)>>,
                  <<"next-shared", edge_shared_transition>>>>),
        "edge", ServerModuleOptions("route", "Edge"), EdgeResolveOptions("route"),
        "app-edge-route")

edge_route_module_context ==
    ModuleAssetContext(
        Collect(<<<<ECMASCRIPT_CLIENT_TRANSITION_NAME, edge_client_reference_transition>>,
                  <<"next-dynamic", NextDynamicTransition(client_transition)>>,
                  <<"next-ssr", ssr_transition>>,
                  <<"next-shared", edge_shared_transition>>>>),
        "edge", ServerModuleOptions("route", "Edge"), EdgeResolveOptions("route"),
        "app-edge-route")

ModuleContexts ==
    {rsc_module_context, edge_rsc_module_context, route_module_context,
     edge_route_module_context, client_module_context}

\* ContextTransition and FullContextTransition applied to the context a module is
\* in: a context transition replaces the compile-time info, the options and the
\* layer and keeps the named transitions, a full context transition replaces the
\* context.
ProcessContext(module_context, transition) ==
    IF transition.kind = "full" THEN transition.module_context
    ELSE [module_context EXCEPT
             !.compile_time_info = transition.compile_time_info,
             !.module_options = transition.module_options,
             !.resolve_options = transition.resolve_options,
             !.layer = transition.layer]

\* The contexts a named transition leads to: a client reference is processed in
\* the client context and, as its SSR twin, in the SSR context; a dynamic import in
\* the client context.
TransitionTargets(module_context, transition) ==
    IF transition.kind = "client_reference"
    THEN {ProcessContext(module_context, transition.client_transition),
          ProcessContext(module_context, transition.ssr_transition)}
    ELSE IF transition.kind = "dynamic"
    THEN {ProcessContext(module_context, transition.client_transition)}
    ELSE {ProcessContext(module_context, transition)}

\* A reference annotated with a transition name is followed.
FollowTransition ==
    /\ IsSome(context)
    /\ Len(trail) < MaxTrail
    /\ \E name \in DOMAIN Unwrap(context).transitions :
          \E next \in TransitionTargets(Unwrap(context), Unwrap(context).transitions[name]) :
              /\ context' = Some(next)
              /\ trail' = Append(trail, name)
    /\ UNCHANGED <<endpoint_vars, merge_vars, seen, fired, modules, shared_cache, shared_runs,
                   routes_vars>>

InitContexts ==
    /\ context \in {Some(c) : c \in ModuleContexts}
    /\ trail = <<>>
    /\ input = [e \in Endpoints |-> DefaultInput]
    /\ client_shared = <<main_js, main_css>>
    /\ InitEndpointState
    /\ InitNoMerge
    /\ InitNoRoutes
    /\ seen = [e \in Endpoints |-> [server |-> None, client |-> None]]
    /\ fired = [e \in Endpoints |-> [server |-> 0, client |-> 0]]
    /\ modules = [e \in Endpoints |-> None]
    /\ shared_cache = {}
    /\ shared_runs = 0

NextContexts == FollowTransition

SpecContexts == InitContexts /\ [][NextContexts]_vars

\* ----------------------- write_to_disk(), its reads and failures step by step
\* let output = self.output().await?
AwaitOutput(e) ==
    /\ pc[e] \in {"idle", "done", "failed"}
    /\ calls[e] < MaxWrites
    /\ calls' = [calls EXCEPT ![e] = @ + 1]
    /\ LET output == EndpointOutput(e)
       IN  /\ out' = [out EXCEPT ![e] = output]
           /\ pc' = [pc EXCEPT ![e] = IF output.ok THEN "assets" ELSE "failed"]
           /\ err' = [err EXCEPT ![e] =
                         IF output.ok THEN None ELSE Some(ErrorContext(e, output.err))]
    /\ output_assets' = [output_assets EXCEPT ![e] = <<>>]
    /\ emitted' = [emitted EXCEPT ![e] = 0]
    /\ written' = [written EXCEPT ![e] = None]
    /\ fresh' = [fresh EXCEPT ![e] = {}]
    /\ UNCHANGED <<input, client_shared, disk, changes, first_written, merge_vars, task_vars>>

\* let output_assets = self.output_assets(): a second read, of output() as it is
\* when the read happens.
ReadOutputAssets(e) ==
    /\ pc[e] = "assets"
    /\ LET output == EndpointOutput(e)
       IN  /\ output_assets' = [output_assets EXCEPT ![e] =
                                   IF output.ok THEN OutputAssets(output) ELSE <<>>]
           /\ pc' = [pc EXCEPT ![e] = IF output.ok THEN "emit" ELSE "failed"]
           /\ err' = [err EXCEPT ![e] =
                         IF output.ok THEN None ELSE Some(ErrorContext(e, output.err))]
    /\ UNCHANGED <<input, client_shared, out, emitted, written, disk, calls, changes,
                   first_written, fresh, merge_vars, task_vars>>

\* emit_all_output_assets(..).await? fails on an asset: the call ends with the error.
EmitFails(e) ==
    /\ pc[e] = "emit"
    /\ emitted[e] < Len(output_assets[e])
    /\ pc' = [pc EXCEPT ![e] = "failed"]
    /\ err' = [err EXCEPT ![e] = Some(ErrorContext(e, "failed to emit an output asset"))]
    /\ UNCHANGED <<input, client_shared, out, output_assets, emitted, written, disk, calls,
                   changes, first_written, fresh, merge_vars, task_vars>>

\* Variant: an input change lets the call in flight go on.
GenerationChangeKeepsCall(e) ==
    /\ changes < MaxChanges
    /\ changes' = changes + 1
    /\ \E i \in WriteInputs :
          /\ i.ty = input[e].ty
          /\ i # input[e]
          /\ input' = [input EXCEPT ![e] = i]
    /\ first_written' = [first_written EXCEPT ![e] = None]
    /\ UNCHANGED <<client_shared, pc, out, output_assets, emitted, fresh, calls, written,
                   err, disk, merge_vars, task_vars>>

\* An input of endpoint e changes, its entry or its segment config: a new generation
\* of output().  A call in flight is abandoned and starts again against the new
\* inputs; what it emitted stays on disk.
GenerationChange(e) ==
    /\ changes < MaxChanges
    /\ changes' = changes + 1
    /\ \E i \in WriteInputs :
          /\ i.ty = input[e].ty
          /\ i # input[e]
          /\ input' = [input EXCEPT ![e] = i]
    /\ first_written' = [first_written EXCEPT ![e] = None]
    /\ IF pc[e] \in {"assets", "emit"}
       THEN /\ pc' = [pc EXCEPT ![e] = "idle"]
            /\ out' = [out EXCEPT ![e] = NotComputed]
            /\ output_assets' = [output_assets EXCEPT ![e] = <<>>]
            /\ emitted' = [emitted EXCEPT ![e] = 0]
            /\ fresh' = [fresh EXCEPT ![e] = {}]
            /\ calls' = [calls EXCEPT ![e] = @ - 1]
       ELSE UNCHANGED <<pc, out, output_assets, emitted, fresh, calls>>
    /\ UNCHANGED <<client_shared, written, err, disk, merge_vars, task_vars>>

NextInFlight ==
    \/ AwaitOutput("A")
    \/ ReadOutputAssets("A")
    \/ Emit("A")
    \/ EmitFails("A")
    \/ Return("A")
    \/ GenerationChange("A")

SpecInFlight == Init /\ [][NextInFlight]_vars

\* ------------------------------- the shared client chunk group as a memoized task
\* Variant: the ident of the request is made from the endpoint's page.
SharedChunkGroupKeyPerPage(e) ==
    [ident |-> [path |-> PageOf(e), modifier |-> "client_shared_chunks"],
     client_runtime_entries |-> "app_project.client_runtime_entries",
     client_chunking_context |-> "project.client_chunking_context"]

\* The arguments output() of endpoint e passes to get_app_client_shared_chunk_group:
\* all three are read from this.app_project, none from the endpoint's page or type.
SharedChunkGroupKey(e) ==
    [ident |-> [path |-> "project_path", modifier |-> "client_shared_chunks"],
     client_runtime_entries |-> "app_project.client_runtime_entries",
     client_chunking_context |-> "project.client_chunking_context"]

\* output() of a page reaches the call: the task of its key is started unless the
\* cache already holds it, running or done.
RequestSharedChunkGroup(e) ==
    /\ pc[e] = "idle"
    /\ out[e] = NotComputed
    /\ ProcessClient(input[e].ty)
    /\ pc' = [pc EXCEPT ![e] = "shared"]
    /\ IF \E t \in shared_cache : t.key = SharedChunkGroupKey(e)
       THEN UNCHANGED <<shared_cache, shared_runs>>
       ELSE /\ shared_cache' = shared_cache \cup {[key |-> SharedChunkGroupKey(e), group |-> None]}
            /\ shared_runs' = shared_runs + 1
    /\ UNCHANGED <<input, client_shared, out, output_assets, emitted, written, err, disk, calls,
                   changes, first_written, fresh, merge_vars, seen, fired, modules, context_vars, routes_vars>>

\* The body of a started task completes with the chunk group of the runtime entries.
RunSharedChunkGroup ==
    /\ \E t \in shared_cache :
          /\ t.group = None
          /\ shared_cache' = (shared_cache \ {t})
                \cup {[t EXCEPT !.group = Some(GetAppClientSharedChunkGroup(client_shared))]}
    /\ UNCHANGED <<endpoint_vars, merge_vars, seen, fired, modules, shared_runs, context_vars, routes_vars>>

\* output() of a page goes on with the group its request resolved to.
OutputWithSharedGroup(e) ==
    /\ pc[e] = "shared"
    /\ \E t \in shared_cache :
          /\ t.key = SharedChunkGroupKey(e)
          /\ IsSome(t.group)
          /\ LET output == Output(input[e], PageOf(e), Unwrap(t.group).assets)
             IN  /\ out' = [out EXCEPT ![e] = output]
                 /\ pc' = [pc EXCEPT ![e] = IF output.ok THEN "computed" ELSE "failed"]
    /\ UNCHANGED <<input, client_shared, output_assets, emitted, written, err, disk, calls, changes,
                   first_written, fresh, merge_vars, task_vars>>

\* output() of a route or metadata endpoint: the client half is skipped.
OutputWithoutClient(e) ==
    /\ ~ProcessClient(input[e].ty)
    /\ ComputeOutput(e)

\* The client runtime entries change: a new build generation.  The memoized task
\* and every output() that read it are invalidated.
RuntimeEntriesChange ==
    /\ changes < MaxChanges
    /\ changes' = changes + 1
    /\ client_shared' \in SharedGroups \ {client_shared}
    /\ shared_cache' = {}
    /\ shared_runs' = 0
    /\ pc' = [e \in Endpoints |-> "idle"]
    /\ out' = [e \in Endpoints |-> NotComputed]
    /\ UNCHANGED <<input, output_assets, emitted, written, err, disk, calls, first_written,
                   fresh, merge_vars, seen, fired, modules, context_vars, routes_vars>>

InitShared ==
    /\ input \in {f \in [Endpoints -> WriteInputs] : ProcessClient(f["A"].ty)}
    /\ client_shared = <<main_js, main_css>>
    /\ InitEndpointState
    /\ InitNoMerge
    /\ InitNoTasks
    /\ InitNoRoutes

NextShared ==
    \/ \E e \in Endpoints :
          \/ RequestSharedChunkGroup(e)
          \/ OutputWithSharedGroup(e)
          \/ OutputWithoutClient(e)
    \/ RunSharedChunkGroup
    \/ RuntimeEntriesChange

SpecShared == InitShared /\ [][NextShared]_vars

\* ------------------------------------------ AppEndpoint::app_endpoint_entry()
\* The entry builder an endpoint type is resolved with and the two module contexts
\* handed to it; the match is on the endpoint type alone.
AppEndpointEntry(ty) ==
    IF ty \in {"Html", "Rsc"}
    THEN [builder |-> "get_app_page_entry",
          nodejs_context |-> rsc_module_context, edge_context |-> edge_rsc_module_context]
    ELSE IF ty = "Route"
    THEN [builder |-> "get_app_route_entry",
          nodejs_context |-> route_module_context, edge_context |-> edge_route_module_context]
    ELSE [builder |-> "get_app_metadata_route_entry",
          nodejs_context |-> rsc_module_context, edge_context |-> edge_rsc_module_context]

\* ----------------------------------------------------- AppProject::routes()
MaxEntrypoints == 2    \* entrypoints discovered in one project

Pathnames == {"/a", "/b", "/c"}

\* The pages of an app page: the pathname itself and, for a page that is also
\* reached through a route group, the page of the group.
PagesOf(pathname) == {<<pathname>>, <<pathname, "/(group)" \o pathname>>}

\* AppEntrypoint: the entrypoints that can be discovered at a pathname.
AppEntrypointsAt(pathname) ==
    {[kind |-> "AppPage", pages |-> pages, loader_tree |-> "tree" \o pathname] :
         pages \in PagesOf(pathname)}
    \cup {[kind |-> "AppRoute", page |-> pathname, path |-> pathname \o "/route.ts",
           root_layouts |-> <<>>],
          [kind |-> "AppMetadata", page |-> pathname, metadata |-> "icon"]}

\* The value of app_entrypoints(): a map in insertion order, each pathname once.
Entrypoints ==
    {m \in UNION {[1..n -> UNION {{[pathname |-> q, entrypoint |-> x] :
                                      x \in AppEntrypointsAt(q)} : q \in Pathnames}] :
                     n \in 0..MaxEntrypoints} :
        \A j, k \in DOMAIN m : j # k => m[j].pathname # m[k].pathname}

AppEndpoint(ty, page_ty, loader_tree, page) ==
    [ty |-> ty, page_ty |-> page_ty, loader_tree |-> loader_tree,
     app_project |-> "self", page |-> page]

\* Variant: the Rsc endpoint of every page is built for the first page.
app_entry_point_to_route_first_page(entrypoint) ==
    IF entrypoint.kind = "AppPage"
    THEN [kind |-> "AppPage",
          pages |-> [j \in DOMAIN entrypoint.pages |->
                       [original_name |-> entrypoint.pages[j],
                        html_endpoint |-> AppEndpoint("Page", Some("Html"),
                                             Some(entrypoint.loader_tree), entrypoint.pages[j]),
                        rsc_endpoint |-> AppEndpoint("Page", Some("Rsc"),
                                             Some(entrypoint.loader_tree), entrypoint.pages[1])]]]
    ELSE [kind |-> "AppRoute",
          original_name |-> entrypoint.page,
          endpoint |-> AppEndpoint(IF entrypoint.kind = "AppRoute" THEN "Route" ELSE "Metadata",
                                   None, None, entrypoint.page)]

app_entry_point_to_route(entrypoint) ==
    IF entrypoint.kind = "AppPage"
    THEN [kind |-> "AppPage",
          pages |-> [j \in DOMAIN entrypoint.pages |->
                       [original_name |-> entrypoint.pages[j],
                        html_endpoint |-> AppEndpoint("Page", Some("Html"),
                                             Some(entrypoint.loader_tree), entrypoint.pages[j]),
                        rsc_endpoint |-> AppEndpoint("Page", Some("Rsc"),
                                             Some(entrypoint.loader_tree), entrypoint.pages[j])]]]
    ELSE [kind |-> "AppRoute",
          original_name |-> entrypoint.page,
          endpoint |-> AppEndpoint(IF entrypoint.kind = "AppRoute" THEN "Route" ELSE "Metadata",
                                   None, None, entrypoint.page)]

\* One of the futures of the map completes: the conversions are polled together and
\* complete in any order.
ConvertEntrypoint ==
    /\ routes = None
    /\ \E k \in DOMAIN app_entrypoints :
          /\ converted[k] = None
          /\ converted' = [converted EXCEPT
                              ![k] = Some(app_entry_point_to_route(app_entrypoints[k].entrypoint))]
    /\ UNCHANGED <<endpoint_vars, merge_vars, seen, fired, modules, shared_cache, shared_runs,
                   context_vars, app_entrypoints, routes>>

\* try_join() gives the results in the order of the entrypoints and collect() puts
\* them in the map of the result.
CollectRoutes ==
    /\ routes = None
    /\ \A k \in DOMAIN app_entrypoints : IsSome(converted[k])
    /\ routes' = Some([k \in DOMAIN app_entrypoints |->
                          [pathname |-> app_entrypoints[k].pathname,
                           route |-> Unwrap(converted[k])]])
    /\ UNCHANGED <<endpoint_vars, merge_vars, seen, fired, modules, shared_cache, shared_runs,
                   context_vars, app_entrypoints, converted>>

InitRoutes ==
    /\ app_entrypoints \in Entrypoints
    /\ converted = [k \in DOMAIN app_entrypoints |-> None]
    /\ routes = None
    /\ input = [e \in Endpoints |-> DefaultInput]
    /\ client_shared = <<main_js, main_css>>
    /\ InitEndpointState
    /\ InitNoMerge
    /\ InitNoTasks

NextRoutes == ConvertEntrypoint \/ CollectRoutes

SpecRoutes == InitRoutes /\ [][NextRoutes]_vars

\* =================================================================== claims
\* How often x occurs in the sequence s.
Count(s, x) == Cardinality({k \in 1..Len(s) : s[k] = x})

Computed(e) == pc[e] = "computed" /\ out[e].ok
IsPage(e) == input[e].ty \in {"Html", "Rsc"}
EdgeFunctionFiles(e) == Unwrap(out[e].middleware_manifest).functions[1].value.files
NodeRootPathsOf(assets) == {GetPathTo(node_root, a) : a \in Range(assets)} \ {None}
PlannedSsrChunks(e) ==
    UNION {Range(out[e].client.chunks.client_component_ssr_chunks[j].chunks) :
           j \in 1..Len(out[e].client.chunks.client_component_ssr_chunks)}
PlannedClientChunks(e) ==
    UNION {Range(out[e].client.chunks.client_component_client_chunks[j].chunks) :
           j \in 1..Len(out[e].client.chunks.client_component_client_chunks)}

Isolation ==
    /\ [](\A e \in Endpoints :
            /\ pc[e] = "emit" => ENABLED (Emit(e) \/ Return(e))
            /\ IsSome(err[e]) =>
                  Unwrap(err[e]).context = "Failed to write app endpoint " \o PageOf(e))
    /\ [][\A e \in Endpoints :
            (pc'[e] = "failed" /\ pc[e] # "failed") =>
                ~Output(input[e], PageOf(e), client_shared).ok]_vars

IsolationWitness ==
    /\ pc["A"] = "failed"
    /\ IsSome(err["A"])
    /\ input["B"].entry = "ok"
    /\ pc["B"] = "done"
    /\ IsSome(written["B"])
    /\ Unwrap(written["B"]).server_paths # {}

\* C4 (edge inlining): for an Edge endpoint, the files of its edge function hold the
\* node-root-relative path of every JS SSR chunk planned for a client reference; for
\* an Html page these are the SSR chunks of every script client reference.
EdgeInlining ==
    \A e \in Endpoints :
        (Computed(e) /\ out[e].variant = "Edge") =>
            /\ \A a \in PlannedSsrChunks(e) :
                  (a.ext = "js" /\ IsSome(GetPathTo(node_root, a))) =>
                      Unwrap(GetPathTo(node_root, a)) \in Range(EdgeFunctionFiles(e))
            /\ input[e].ty = "Html" =>
                  \A k \in 1..Len(input[e].refs) :
                      input[e].refs[k].kind = "script" =>
                          Range(input[e].refs[k].ssr) \subseteq PlannedSsrChunks(e)

EdgeInliningWitness ==
    /\ Computed("A")
    /\ out["A"].variant = "Edge"
    /\ input["A"].ty = "Html"
    /\ \E k \in 1..Len(input["A"].refs) : input["A"].refs[k].kind = "script"
    /\ Unwrap(GetPathTo(node_root, s1_js)) \in Range(EdgeFunctionFiles("A"))

\* C5 (client-side manifest consistency, as claimed): for a page, every client chunk
\* path the client reference manifest lists for a client reference is among the
\* root_main_files or polyfill_files of the build manifest or in the page's list in
\* the app-build manifest.
ClientReferenceChunksInBuildManifests ==
    \A e \in Endpoints :
        (Computed(e) /\ IsPage(e)) =>
            LET manifest == Unwrap(out[e].client.client_reference_manifest)
                build == Unwrap(out[e].client.build_manifest)
                app_build == Unwrap(out[e].client.app_build_manifest)
            IN  \A k \in 1..Len(manifest) :
                    Range(manifest[k].client_chunks) \subseteq
                        (Range(build.root_main_files) \cup Range(build.polyfill_files)
                            \cup Range(app_build.files))

\* C6 (edge-side manifest consistency, as claimed): for an Edge endpoint, every path
\* in the files of its edge function is the node-root-relative path of one of its
\* server assets.
EdgeFilesAreServerAssets ==
    \A e \in Endpoints :
        (Computed(e) /\ out[e].variant = "Edge") =>
            \A k \in 1..Len(EdgeFunctionFiles(e)) :
                Some(EdgeFunctionFiles(e)[k]) \in NodeRootPathsOf(out[e].server_assets)

\* C6 (amended): for an Edge endpoint, every path in the files of its edge function
\* after the five fixed global manifest scripts is the node-root-relative path of one
\* of its server assets; the five scripts themselves are not assets of the endpoint.
EdgeFilesBeyondGlobalAreServerAssets ==
    \A e \in Endpoints :
        (Computed(e) /\ out[e].variant = "Edge") =>
            /\ SubSeq(EdgeFunctionFiles(e), 1, Len(GlobalManifestScripts))
                   = GlobalManifestScripts
            /\ \A k \in (Len(GlobalManifestScripts) + 1)..Len(EdgeFunctionFiles(e)) :
                  Some(EdgeFunctionFiles(e)[k]) \in NodeRootPathsOf(out[e].server_assets)

EdgeFilesWitness ==
    /\ Computed("A")
    /\ out["A"].variant = "Edge"
    /\ Unwrap(GetPathTo(node_root, s1_js)) \in Range(EdgeFunctionFiles("A"))
    /\ s1_js \in Range(out["A"].server_assets)

\* C7 (availability non-duplication, as claimed): for a page, the client reference
\* chunks are planned against the baseline of the shared client chunk group, no asset
\* of that group is among them, and no asset occurs twice in client_assets.
ClientAssetsNoDuplicates ==
    \A e \in Endpoints :
        (Computed(e) /\ IsPage(e)) =>
            /\ out[e].client.availability = Range(client_shared)
            /\ Range(client_shared)
                   \cap (PlannedClientChunks(e) \cup Range(out[e].client.entry_client_chunks))
                   = {}
            /\ \A a \in Range(out[e].client_assets) : Count(out[e].client_assets, a) = 1

\* C7 (amended): for a page, the client reference chunks are planned against the
\* baseline of the shared client chunk group, no asset of that group is among the
\* entry client chunks or the client-component client chunks, and so every asset of
\* the shared group occurs exactly once in client_assets.
SharedAssetsNotReplanned ==
    \A e \in Endpoints :
        (Computed(e) /\ IsPage(e)) =>
            /\ out[e].client.availability = Range(client_shared)
            /\ Range(client_shared)
                   \cap (PlannedClientChunks(e) \cup Range(out[e].client.entry_client_chunks))
                   = {}
            /\ \A a \in Range(client_shared) : Count(out[e].client_assets, a) = 1

SharedAssetsWitness ==
    /\ Computed("A")
    /\ IsPage("A")
    /\ \E k \in 1..Len(input["A"].refs) :
          /\ main_js \in Range(input["A"].refs[k].client)
          /\ input["A"].refs[k].segment = "layout"
    /\ c2_js \in Range(out["A"].client.entry_client_chunks)
    /\ Count(out["A"].client_assets, main_js) = 1

\* C8 (segment config merge): for a non-empty chain of root layouts, outermost first,
\* every field of the merged config is the value of the innermost layout that sets
\* the field, and is unset only when no layout sets it.
InnermostSetting(layouts, field) ==
    LET setting == {k \in 1..Len(layouts) : IsSome(layouts[k][field])}
    IN  IF setting = {} THEN None
        ELSE layouts[CHOOSE k \in setting : \A j \in setting : j <= k][field]

SegmentConfigMerge ==
    (mpc = "done" /\ root_layouts # <<>>) =>
        /\ IsSome(config)
        /\ \A field \in {"runtime", "preferred_region"} :
              Unwrap(config)[field] = InnermostSetting(root_layouts, field)

SegmentConfigMergeWitness ==
    /\ mpc = "done"
    /\ root_layouts = <<SegmentConfig(Some("NodeJs"), Some(<<"us">>)),
                        SegmentConfig(Some("Edge"), None)>>
    /\ config = Some(SegmentConfig(Some("Edge"), Some(<<"us">>)))

\* C9 (ordering inside write_to_disk): a WrittenEndpoint is there only when output()
\* was computed for the call and every asset of its output_assets, the server assets
\* followed by the client assets, has been emitted.
ReturnAfterEmission ==
    \A e \in Endpoints :
        IsSome(written[e]) =>
            /\ out[e].ok
            /\ output_assets[e] = out[e].server_assets \o out[e].client_assets
            /\ emitted[e] = Len(output_assets[e])
            /\ Range(output_assets[e]) \subseteq disk

ReturnAfterEmissionWitness ==
    /\ IsSome(written["A"])
    /\ calls["A"] = 1
    /\ Len(out["A"].server_assets) > 1
    /\ Len(out["A"].client_assets) > 1
    /\ Range(output_assets["A"]) \subseteq disk

\* C10 (shape of WrittenEndpoint): the WrittenEndpoint has the variant of output();
\* the NodeJs variant carries the path of the RSC entry chunk relative to the node
\* root and the Edge variant carries no entry path; server_paths and client_paths are
\* the paths, relative to the node root and to the client-relative root, of the
\* server assets and the client assets together.
WrittenEndpointShape ==
    \A e \in Endpoints :
        IsSome(written[e]) =>
            LET w == Unwrap(written[e])
                all == Range(out[e].server_assets) \cup Range(out[e].client_assets)
                under(root) == {GetPathTo(root, a) : a \in all} \ {None}
            IN  /\ w.variant = out[e].variant
                /\ w.variant \in {"NodeJs", "Edge"}
                /\ w.variant = "NodeJs" =>
                      /\ IsSome(out[e].rsc_chunk)
                      /\ w.server_entry_path = GetPathTo(node_root, Unwrap(out[e].rsc_chunk))
                      /\ IsSome(w.server_entry_path)
                /\ w.variant = "Edge" => w.server_entry_path = None
                /\ {Some(p) : p \in w.server_paths} = under(node_root)
                /\ {Some(p) : p \in w.client_paths} = under(client_relative_path)

WrittenEndpointShapeWitness ==
    /\ IsSome(written["A"])
    /\ Unwrap(written["A"]).variant = "NodeJs"
    /\ Unwrap(written["A"]).client_paths # {}
    /\ IsSome(written["B"])
    /\ Unwrap(written["B"]).variant = "Edge"

\* C11 (app-paths manifest): the app-paths manifest of an endpoint maps exactly one
\* key, the endpoint's original name; for NodeJs the value is the path, relative to
\* <node_root>/server, of the RSC entry chunk, which is one of the server assets; for
\* Edge the value is the sentinel "app-edge-has-no-entrypoint".
AppPathsManifestEntry ==
    \A e \in Endpoints :
        Computed(e) =>
            LET manifest == Unwrap(out[e].app_paths_manifest)
            IN  /\ IsSome(out[e].app_paths_manifest)
                /\ manifest.path \in Range(out[e].server_assets)
                /\ Len(manifest.pages) = 1
                /\ manifest.pages[1].key = OriginalName(input[e].ty, PageOf(e))
                /\ out[e].variant = "NodeJs" =>
                      /\ IsSome(out[e].rsc_chunk)
                      /\ Some(manifest.pages[1].value)
                             = GetPathTo(server_path, Unwrap(out[e].rsc_chunk))
                      /\ Unwrap(out[e].rsc_chunk) \in Range(out[e].server_assets)
                /\ out[e].variant = "Edge" =>
                      manifest.pages[1].value = "app-edge-has-no-entrypoint"

AppPathsManifestEntryWitness ==
    /\ Computed("A")
    /\ out["A"].variant = "NodeJs"
    /\ input["A"].ty = "Route"
    /\ Unwrap(out["A"].app_paths_manifest).pages[1].key = "/a/route"
    /\ Unwrap(out["A"].app_paths_manifest).pages[1].value
           = [dir |-> <<>>, name |-> "app/a/route", ext |-> "js"]

\* C12 (output file layout, as claimed): for every endpoint with original name R,
\* server_assets holds server/app<R>/app-paths-manifest.json, app-build-manifest.json,
\* build-manifest.json and react-loadable-manifest.json, and holds
\* server/app<R>/middleware-manifest.json if and only if the resolved runtime is Edge.
OutputFileLayout ==
    \A e \in Endpoints :
        Computed(e) =>
            LET R == OriginalName(input[e].ty, PageOf(e))
                server == Range(out[e].server_assets)
            IN  /\ \A file \in {"app-paths-manifest", "app-build-manifest",
                                "build-manifest", "react-loadable-manifest"} :
                      ManifestPath(R, file) \in server
                /\ ManifestPath(R, "middleware-manifest") \in server
                       <=> ResolveRuntime(input[e].config) = "Edge"

RootModulesOnlyResolvesEntry ==
    /\ [](\A e \in Endpoints :
            IsSome(modules[e]) =>
                /\ Unwrap(modules[e]) = <<RscEntry(e)>>
                /\ input[e].entry # "unresolved")
    /\ [][\A e \in Endpoints :
            (modules'[e] # modules[e] /\ IsSome(modules'[e])) =>
                /\ out' = out
                /\ output_assets' = output_assets
                /\ emitted' = emitted
                /\ disk' = disk
                /\ written' = written
                /\ seen' = seen
                /\ fired' = fired
                /\ shared_cache' = shared_cache
                /\ shared_runs' = shared_runs]_vars

\* root_modules() of an Edge page whose entry is not evaluatable: output() would
\* fail, and was not computed.
RootModulesWitness ==
    /\ input["A"].ty = "Html"
    /\ input["A"].entry = "not_evaluatable"
    /\ input["A"].config.runtime = Some("Edge")
    /\ modules["A"] = Some(<<[rsc_entry |-> "/a/page"]>>)
    /\ out["A"] = NotComputed
    /\ ~Output(input["A"], PageOf("A"), client_shared).ok

\* C15 (transition table): every module context has at most 5 named transitions; the
\* four server contexts (app-rsc, app-edge-rsc, app-route, app-edge-route) have the
\* same names, next-ecmascript-client-reference, next-dynamic, next-ssr and
\* next-shared, and the client context has none.
TransitionTable ==
    IsSome(context) =>
        LET names == DOMAIN Unwrap(context).transitions
            layer == Unwrap(context).layer
        IN  /\ Cardinality(names) <= 5
            /\ trail = <<>> =>
                  /\ layer \in {"app-rsc", "app-edge-rsc", "app-route", "app-edge-route",
                                "app-client"}
                  /\ layer # "app-client" =>
                        names = {"next-ecmascript-client-reference", "next-dynamic",
                                 "next-ssr", "next-shared"}
                  /\ layer = "app-client" => names = {}

TransitionTableWitness ==
    /\ trail = <<>>
    /\ context = Some(edge_route_module_context)
    /\ Unwrap(context).layer = "app-edge-route"
    /\ DOMAIN Unwrap(context).transitions = DOMAIN rsc_module_context.transitions
    /\ Cardinality(DOMAIN Unwrap(context).transitions) = 4

\* C16 (consistency failures, as claimed): whenever output() completes, every asset
\* whose root-relative path it needs lies under its root and is listed: the JS chunks
\* of the shared client chunk group are all among the root_main_files, the entry
\* client chunks are all in the page's list of the app-build manifest, the polyfill is
\* among the polyfill_files, and the RSC entry chunk is under <node_root>/server.
ConsistencyFailuresAreErrors ==
    \A e \in Endpoints :
        Computed(e) =>
            /\ IsPage(e) =>
                  LET build == Unwrap(out[e].client.build_manifest)
                      app_build == Unwrap(out[e].client.app_build_manifest)
                  IN  /\ \A a \in Range(out[e].client.shared_assets) :
                            a.ext = "js" =>
                                GetPathTo(client_relative_path, a)
                                    \in {Some(p) : p \in Range(build.root_main_files)}
                      /\ \A a \in Range(out[e].client.entry_client_chunks) :
                            GetPathTo(client_relative_path, a)
                                \in {Some(p) : p \in Range(app_build.files)}
                      /\ GetPathTo(client_relative_path, polyfill_output_path)
                             \in {Some(p) : p \in Range(build.polyfill_files)}
            /\ out[e].variant = "NodeJs" =>
                  IsSome(GetPathTo(server_path, Unwrap(out[e].rsc_chunk)))

\* C17: a call of write_to_disk() that fails returns no WrittenEndpoint and its error
\* carries the context "Failed to write app endpoint <page>", whether output()
\* failed or the emission did; when output() failed the call emitted no asset.
WriteFailure ==
    \A e \in Endpoints :
        pc[e] = "failed" =>
            /\ written[e] = None
            /\ IsSome(err[e])
            /\ Unwrap(err[e]).context = "Failed to write app endpoint " \o PageOf(e)
            /\ ~out[e].ok =>
                  /\ emitted[e] = 0
                  /\ fresh[e] = {}
                  /\ output_assets[e] = <<>>

\* A second call fails in output() after the entry became unresolvable: it leaves
\* the disk as the first call wrote it.
WriteFailureWitness ==
    /\ pc["A"] = "failed"
    /\ calls["A"] = 2
    /\ ~out["A"].ok
    /\ Unwrap(err["A"]).context = "Failed to write app endpoint /a"
    /\ disk # {}
    /\ fresh["A"] = {}

\* C18: every page endpoint of the project requests the shared client chunk group
\* with the same key, so its task runs at most once in a build generation, and every
\* page whose output() is computed holds the same shared assets and the same
\* availability baseline, those of the generation.
SharedChunkGroupOnce ==
    /\ \A e, f \in Endpoints : SharedChunkGroupKey(e) = SharedChunkGroupKey(f)
    /\ shared_runs <= 1
    /\ Cardinality(shared_cache) <= 1
    /\ \A e \in Endpoints :
          (pc[e] = "computed" /\ ProcessClient(input[e].ty)) =>
              /\ out[e].client.shared_assets = client_shared
              /\ out[e].client.availability = Range(client_shared)
              /\ \A f \in Endpoints :
                    (pc[f] = "computed" /\ ProcessClient(input[f].ty)) =>
                        /\ out[f].client.shared_assets = out[e].client.shared_assets
                        /\ out[f].client.availability = out[e].client.availability

\* Both pages are built in the second generation and the task ran once for the two.
SharedChunkGroupOnceWitness ==
    /\ changes = 1
    /\ shared_runs = 1
    /\ \A e \in Endpoints : pc[e] = "computed" /\ ProcessClient(input[e].ty)
    /\ out["A"].client.shared_assets = client_shared
    /\ out["B"].client.shared_assets = client_shared
    /\ client_shared # <<main_js, main_css>>

RuntimeBranching ==
    \A e \in Endpoints :
        /\ LET entry == AppEndpointEntry(input[e].ty)
           IN  /\ entry.nodejs_context.module_options.runtime = "NodeJs"
               /\ entry.nodejs_context.compile_time_info = "server"
               /\ entry.edge_context.module_options.runtime = "Edge"
               /\ entry.edge_context.compile_time_info = "edge"
        /\ Computed(e) =>
              /\ out[e].variant = "Edge" <=> input[e].config.runtime = Some("Edge")
              /\ out[e].variant = "NodeJs" <=> input[e].config.runtime \in {None, Some("NodeJs")}
              /\ out[e].variant \in {"Edge", "NodeJs"}

\* A page whose config sets no runtime is built as the NodeJs variant.
RuntimeBranchingWitness ==
    /\ Computed("A")
    /\ input["A"].ty = "Html"
    /\ input["A"].config.runtime = None
    /\ out["A"].variant = "NodeJs"
    /\ AppEndpointEntry(input["A"].ty).edge_context = edge_rsc_module_context

\* C21: the result of routes() has exactly one Route for every discovered pathname,
\* in the order of the entrypoints whatever the order the conversions completed in;
\* an AppPage entrypoint gives one AppPageRoute per page whose Html and Rsc endpoints
\* carry that page and the loader tree of the entrypoint; an AppRoute and an
\* AppMetadata entrypoint give a Route::AppRoute whose original name and whose one
\* endpoint's page are the page of the entrypoint.
RoutesPerEntrypoint ==
    IsSome(routes) =>
        LET result == Unwrap(routes)
        IN  /\ Len(result) = Len(app_entrypoints)
            /\ \A k \in DOMAIN app_entrypoints :
                  LET entrypoint == app_entrypoints[k].entrypoint
                      route == result[k].route
                  IN  /\ result[k].pathname = app_entrypoints[k].pathname
                      /\ Cardinality({j \in DOMAIN result :
                                         result[j].pathname = app_entrypoints[k].pathname}) = 1
                      /\ entrypoint.kind = "AppPage" =>
                            /\ route.kind = "AppPage"
                            /\ Len(route.pages) = Len(entrypoint.pages)
                            /\ \A j \in DOMAIN entrypoint.pages :
                                  /\ route.pages[j].original_name = entrypoint.pages[j]
                                  /\ route.pages[j].html_endpoint.page = entrypoint.pages[j]
                                  /\ route.pages[j].rsc_endpoint.page = entrypoint.pages[j]
                                  /\ route.pages[j].html_endpoint.page_ty = Some("Html")
                                  /\ route.pages[j].rsc_endpoint.page_ty = Some("Rsc")
                                  /\ route.pages[j].html_endpoint.loader_tree
                                         = Some(entrypoint.loader_tree)
                                  /\ route.pages[j].rsc_endpoint.loader_tree
                                         = Some(entrypoint.loader_tree)
                      /\ entrypoint.kind \in {"AppRoute", "AppMetadata"} =>
                            /\ route.kind = "AppRoute"
                            /\ route.original_name = entrypoint.page
                            /\ route.endpoint.page = entrypoint.page
                            /\ route.endpoint.ty =
                                  (IF entrypoint.kind = "AppRoute" THEN "Route" ELSE "Metadata")

\* A page with two pages and a metadata route are collected.
RoutesPerEntrypointWitness ==
    /\ IsSome(routes)
    /\ Len(app_entrypoints) = 2
    /\ app_entrypoints[1].entrypoint.kind = "AppPage"
    /\ Len(app_entrypoints[1].entrypoint.pages) = 2
    /\ app_entrypoints[2].entrypoint.kind = "AppMetadata"
    /\ Unwrap(routes)[1].route.pages[2].rsc_endpoint.page = "/(group)/b"
    /\ Unwrap(routes)[2].route.kind = "AppRoute"

MiddlewareManifestContent ==
    \A e \in Endpoints :
        (Computed(e) /\ out[e].variant = "Edge") =>
            LET manifest == Unwrap(out[e].middleware_manifest)
                original_name == OriginalName(input[e].ty, PageOf(e))
                definition == manifest.functions[1].value
                inlined == GetJsPathsFromRoot(node_root, out[e].client.middleware_assets)
                evaluated == GetJsPathsFromRoot(node_root, out[e].files)
            IN  /\ IsSome(out[e].middleware_manifest)
                /\ manifest.sorted_middleware = <<original_name>>
                /\ Len(manifest.functions) = 1
                /\ manifest.functions[1].key = original_name
                /\ definition.name = PageOf(e)
                /\ definition.page = original_name
                /\ Len(definition.matchers) = 1
                /\ IsSome(definition.matchers[1].regexp)
                /\ definition.matchers[1].original_source = PageOf(e)
                /\ definition.regions = input[e].config.preferred_region
                /\ Len(definition.files) = 5 + Len(inlined) + Len(evaluated)
                /\ SubSeq(definition.files, 1, 5) = GlobalManifestScripts
                /\ SubSeq(definition.files, 6, 5 + Len(inlined)) = inlined
                /\ SubSeq(definition.files, 6 + Len(inlined), Len(definition.files)) = evaluated
                /\ \A k \in 6..Len(definition.files) : definition.files[k].ext = "js"

\* An Edge page with declared regions: after the five scripts come the entry manifest
\* and the inlined SSR chunk, then the evaluated chunk.
MiddlewareManifestContentWitness ==
    /\ Computed("A")
    /\ out["A"].variant = "Edge"
    /\ input["A"].ty = "Html"
    /\ input["A"].config.preferred_region = Some(<<"us">>)
    /\ LET definition == Unwrap(out["A"].middleware_manifest).functions[1].value
       IN  /\ definition.regions = Some(<<"us">>)
           /\ Len(definition.files) = 8
           /\ definition.files[7] = Unwrap(GetPathTo(node_root, s1_js))

\* C24: the modules searched for dynamic imports for the loadable manifest are the
\* RSC entry (written 0) and, for a page, the SSR module of every script client
\* reference and of no stylesheet client reference; for a route or metadata endpoint
\* they are the entry alone.
ClientReferenceClassification ==
    \A e \in Endpoints :
        Computed(e) =>
            LET refs == input[e].refs
                scripts == {k \in 1..Len(refs) : refs[k].kind = "script"}
                stylesheets == {k \in 1..Len(refs) : refs[k].kind = "css"}
                sources == Range(out[e].loadable_sources)
            IN  /\ 0 \in sources
                /\ sources \cap stylesheets = {}
                /\ IsPage(e) => sources = {0} \cup scripts
                /\ ~IsPage(e) => sources = {0}
                /\ IsPage(e) <=> IsSome(out[e].client.client_dynamic_imports)

\* A page with a stylesheet reference and then a script reference: only the second
\* gives its SSR module.
ClientReferenceClassificationWitness ==
    /\ Computed("A")
    /\ input["A"].ty = "Rsc"
    /\ Len(input["A"].refs) = 2
    /\ input["A"].refs[1].kind = "css"
    /\ input["A"].refs[2].kind = "script"
    /\ out["A"].loadable_sources = <<0, 2>>

\* C25: from a context compiled with the edge compile-time info, an Edge module
\* context or one reached from it, every named transition that does not lead to the
\* client context leads to a context with the edge compile-time info and the edge SSR
\* module and resolve options; none leads to the NodeJs server compile-time info.
EdgeContextsStayOnEdge ==
    (IsSome(context) /\ Unwrap(context).compile_time_info = "edge") =>
        \A name \in DOMAIN Unwrap(context).transitions :
            \A next \in TransitionTargets(Unwrap(context), Unwrap(context).transitions[name]) :
                next.compile_time_info # "client" =>
                    /\ next.compile_time_info = "edge"
                    /\ next.module_options = ServerModuleOptions("ssr", "Edge")
                    /\ next.resolve_options = EdgeResolveOptions("ssr")

\* C26: for a page, every path in the build manifest (root_main_files and
\* polyfill_files) and in the page's list of the app-build manifest is the
\* client-relative path of one of the endpoint's client assets; root_main_files is
\* exactly the JS files of the shared client chunk group, in the order of the group;
\* the page's list, under the one key original name, is the paths of the entry client
\* chunks followed by root_main_files.
ClientManifestsListEmittedAssets ==
    \A e \in Endpoints :
        (Computed(e) /\ IsPage(e)) =>
            LET build == Unwrap(out[e].client.build_manifest)
                app_build == Unwrap(out[e].client.app_build_manifest)
                client_paths == {GetPathTo(client_relative_path, a) :
                                    a \in Range(out[e].client_assets)} \ {None}
                shared_js == SelectSeq(client_shared, LAMBDA a : a.ext = "js")
                entry_chunks == out[e].client.entry_client_chunks
            IN  /\ \A p \in Range(build.root_main_files) \cup Range(build.polyfill_files)
                              \cup Range(app_build.files) :
                      Some(p) \in client_paths
                /\ Len(build.root_main_files) = Len(shared_js)
                /\ \A k \in 1..Len(build.root_main_files) :
                      Some(build.root_main_files[k])
                          = GetPathTo(client_relative_path, shared_js[k])
                /\ app_build.key = OriginalName(input[e].ty, PageOf(e))
                /\ app_build.files
                       = [k \in 1..Len(entry_chunks) |->
                             Unwrap(GetPathTo(client_relative_path, entry_chunks[k]))]
                         \o build.root_main_files

SsrChunksOnlyForHtml ==
    \A e \in Endpoints :
        Computed(e) =>
            LET ssr_chunks == UNION {Range(input[e].refs[k].ssr) : k \in 1..Len(input[e].refs)}
            IN  /\ IsSome(out[e].client.ssr_chunking_context) <=> input[e].ty = "Html"
                /\ input[e].ty = "Html" =>
                      out[e].client.ssr_chunking_context
                          = Some(IF out[e].variant = "NodeJs" THEN "server" ELSE "edge")
                /\ input[e].ty = "Rsc" =>
                      /\ out[e].client.chunks.client_component_ssr_chunks = <<>>
                      /\ ssr_chunks \cap Range(out[e].server_assets) = {}
                      /\ out[e].variant = "Edge" =>
                            \A a \in ssr_chunks :
                                \A k \in 1..Len(EdgeFunctionFiles(e)) :
                                    Some(EdgeFunctionFiles(e)[k]) # GetPathTo(node_root, a)

\* The Rsc variant of an Edge page with a script client reference.
SsrChunksOnlyForHtmlWitness ==
    /\ Computed("A")
    /\ input["A"].ty = "Rsc"
    /\ out["A"].variant = "Edge"
    /\ Len(input["A"].refs) > 0
    /\ input["A"].refs[1].kind = "script"
    /\ s1_js \in Range(input["A"].refs[1].ssr)
    /\ s1_js \notin Range(out["A"].server_assets)
    /\ out["A"].client.ssr_chunking_context = None

====
